---- MODULE Spec2Model ----
(***************************************************************************)
(* Model of core_api/src/states/state.rs: the State orchestrator, its      *)
(* extension catalog lookups, the notification dispatcher (tokio::spawn    *)
(* units serialised by one tokio Mutex per plugin), the reload pass and    *)
(* the persistence decision of State::update.                              *)
(***************************************************************************)
EXTENDS Integers, Sequences, FiniteSets, TLC

\* ---------------------------------------------------------------- bounds
MaxExts == 3          \* catalog length in the lookup specification
MaxDispExts == 2      \* catalog length in the dispatch specification
MaxUpdates == 2       \* update calls per behaviour
MaxNotifies == 2      \* notify_extension / notify_extensions calls
MaxReloads == 1       \* run_extensions passes
MaxTasks == 2         \* units spawned by the notify calls
MaxLookups == 2       \* lookup calls in the lookup specification
MaxCalls == 2         \* method calls, of any kind, in the full specification
MaxFullExts == 1      \* catalog length in the full specification
MaxDispCalls == 2     \* method calls, of any kind, in the dispatch specification

\* ---------------------------------------------------------- value domains
Ids == {0, 1}
ViewsDom == {<<>>, <<"v1">>}
CommandsDom == {{}, {"c1"}}
ExtIds == {"a", "b"}
ExtNames == {"n1", "n2"}
ParentIds == {"group-1", "group-2"}
Msgs == {"m1", "m2"}

StateData == [id : Ids, views : ViewsDom, commands : CommandsDom]

\* LoadedExtension, a tagged union of three variants.  The manifest
\* variants carry no parent id; the field is kept with a fixed filler so
\* that all records have one shape.
NoParent == "-"
ManifestKinds == {"ManifestBuiltin", "ManifestFile"}
LoadedExtension ==
    [kind : {"ExtensionInstance"}, id : ExtIds, name : ExtNames, parent_id : ParentIds]
      \cup [kind : ManifestKinds, id : ExtIds, name : ExtNames, parent_id : {NoParent}]

\* The smaller record set used where only kind and parent id matter.
DispExtension ==
    {e \in LoadedExtension : e.id = "a" /\ e.name = "n1"}

\* The records of the lookup specification: one parent id is enough there.
LookupExtension ==
    {e \in LoadedExtension : e.parent_id \in {NoParent, "group-1"}}

\* The records of the full specification: one running instance, one manifest.
FullExtension ==
    {e \in DispExtension : e.kind = "ManifestBuiltin" \/ e.parent_id = "group-1"}

SeqsUpTo(S, n) == UNION {[1..k -> S] : k \in 0..n}

VARIABLES
    extensions,   \* extensions_manager.extensions : Vec<LoadedExtension>
    persistor,    \* TRUE iff State.persistor is Some(..)
    data,         \* State.data
    ctor_id,      \* the id the State was constructed with
    saves,        \* sequence of the StateData values passed to Persistor::save
    warnings,     \* number of "could not save" warnings emitted
    upd,          \* the update call in progress / last completed
    plock,        \* holder of the persistor's Mutex: "free" or "update"
    tasks,        \* the units spawned by tokio::spawn, in spawn order
    lock,         \* per catalog index: holder of the plugin's Mutex (0 = free)
    queue,        \* per catalog index: FIFO of waiters on the plugin's Mutex
    received,     \* per catalog index: calls the plugin object has received
    calls,        \* the notify calls made so far
    reload,       \* the run_extensions pass: position and count
    ret,          \* the last lookup call and its result
    budget,       \* calls of the State's methods still to be made
    built,        \* TRUE once the State has been constructed
    loaded,       \* the StateData the persistor's load() returns
    loads,        \* number of Persistor::load calls made
    filesystems,  \* State.filesystems: the registered names
    tokens,       \* State.tokens : Vec<String>
    language_servers  \* State.language_servers: set of <<name, descriptor>>

vars == <<extensions, persistor, data, ctor_id, saves, warnings, upd, plock,
          tasks, lock, queue, received, calls, reload, ret, budget,
          built, loaded, loads, filesystems, tokens, language_servers>>

\* what only construction and the side tables touch
sideVars == <<built, loaded, loads, filesystems, tokens, language_servers>>

persistVars == <<persistor, data, ctor_id, saves, warnings, upd, plock>>
dispatchVars == <<tasks, lock, queue, received, calls, reload>>

ReloadId == -1        \* the run_extensions pass as a lock holder / waiter

IsInstance(e) == e.kind = "ExtensionInstance"
Indices == 1..Len(extensions)

\* ------------------------------------------------------- catalog lookups
NoInfo == [id |-> "", name |-> ""]
Ok(info) == [tag |-> "Ok", info |-> info]
ExtensionNotFound == [tag |-> "ExtensionNotFound", info |-> NoInfo]
InfoOf(e) == [id |-> e.id, name |-> e.name]

\* closure of get_ext_info_by_id: ManifestFile or ManifestBuiltin whose
\* manifest id equals ext_id
ManifestMatchAnyKind(e, ext_id) == e.id = ext_id
ManifestMatch(e, ext_id) == e.kind \in ManifestKinds /\ e.id = ext_id

\* iter().find_map(..): the first Some(..) in iteration order, 0 for None
RECURSIVE FindManifest(_, _, _)
FindManifest(exts, i, ext_id) ==
    IF i > Len(exts) THEN 0
    ELSE IF ManifestMatch(exts[i], ext_id) THEN i
    ELSE FindManifest(exts, i + 1, ext_id)

get_ext_info_by_id(exts, ext_id) ==
    LET i == FindManifest(exts, 1, ext_id)
    IN  IF i = 0 THEN ExtensionNotFound ELSE Ok(InfoOf(exts[i]))

\* closure of get_ext_run_info_by_id: ExtensionInstance whose info.id
\* equals ext_id
RunInfoMatchParent(e, ext_id) == IsInstance(e) /\ e.parent_id = ext_id
RunInfoMatch(e, ext_id) == IsInstance(e) /\ e.id = ext_id

RECURSIVE FindInstance(_, _, _)
FindInstance(exts, i, ext_id) ==
    IF i > Len(exts) THEN 0
    ELSE IF RunInfoMatch(exts[i], ext_id) THEN i
    ELSE FindInstance(exts, i + 1, ext_id)

get_ext_run_info_by_id(exts, ext_id) ==
    LET i == FindInstance(exts, 1, ext_id)
    IN  IF i = 0 THEN ExtensionNotFound ELSE Ok(InfoOf(exts[i]))

\* closure of get_ext_list_by_id: Some(id) for the two manifest variants
ListedAnyKind(e) == TRUE
Listed(e) == e.kind \in ManifestKinds

RECURSIVE FilterMapIds(_, _)
FilterMapIds(exts, i) ==
    IF i > Len(exts) THEN <<>>
    ELSE IF Listed(exts[i]) THEN <<exts[i].id>> \o FilterMapIds(exts, i + 1)
    ELSE FilterMapIds(exts, i + 1)

get_ext_list_by_id(exts) == FilterMapIds(exts, 1)

NoRet == [op |-> "none", arg |-> "", res |-> ExtensionNotFound, list |-> <<>>]

GetExtInfoById(ext_id) ==
    /\ budget > 0
    /\ budget' = budget - 1
    /\ ret' = [op |-> "get_ext_info_by_id", arg |-> ext_id,
               res |-> get_ext_info_by_id(extensions, ext_id), list |-> <<>>]
    /\ UNCHANGED <<sideVars, extensions, persistVars, dispatchVars>>

GetExtRunInfoById(ext_id) ==
    /\ budget > 0
    /\ budget' = budget - 1
    /\ ret' = [op |-> "get_ext_run_info_by_id", arg |-> ext_id,
               res |-> get_ext_run_info_by_id(extensions, ext_id), list |-> <<>>]
    /\ UNCHANGED <<sideVars, extensions, persistVars, dispatchVars>>

GetExtListById ==
    /\ budget > 0
    /\ budget' = budget - 1
    /\ ret' = [op |-> "get_ext_list_by_id", arg |-> "",
               res |-> ExtensionNotFound, list |-> get_ext_list_by_id(extensions)]
    /\ UNCHANGED <<sideVars, extensions, persistVars, dispatchVars>>

\* ------------------------------------------------------------ update
\* lines 195-203: any_diff is set by a views or a commands difference
AnyDiffWithId(d, nd) ==
    d.views # nd.views \/ d.commands # nd.commands \/ d.id # nd.id
AnyDiff(d, nd) == d.views # nd.views \/ d.commands # nd.commands

\* lines 205-215: what the call does after the comparison
UpdateBranchSaveFirst(hasPersistor, any_diff) ==
    IF any_diff THEN "save" ELSE IF hasPersistor THEN "return" ELSE "warn"
UpdateBranchWarnOnDiff(hasPersistor, any_diff) ==
    IF hasPersistor THEN (IF any_diff THEN "save" ELSE "return")
    ELSE IF any_diff THEN "warn" ELSE "return"
UpdateBranch(hasPersistor, any_diff) ==
    IF hasPersistor THEN (IF any_diff THEN "save" ELSE "return") ELSE "warn"

\* update has no assignment to self.data: the live data after the call
MergedDataOverwrite(d, nd) == nd
MergedData(d, nd) == d

NoUpdate == [pc |-> "idle", n |-> 0, new_data |-> [id |-> 0, views |-> <<>>, commands |-> {}],
             pre |-> [id |-> 0, views |-> <<>>, commands |-> {}],
             any_diff |-> FALSE, saves0 |-> 0, warn0 |-> 0]

\* update(&mut self, ..) excludes every other borrow of the State
NoBorrow == upd.pc = "idle" /\ reload.pc = "idle"

\* update up to its only await point (persistor.lock().await)
UpdateBegin(new_data) ==
    /\ NoBorrow
    /\ upd.n < MaxUpdates
    /\ budget > 0
    /\ budget' = budget - 1
    /\ LET any_diff == AnyDiff(data, new_data)
           branch == UpdateBranch(persistor, any_diff)
       IN  /\ upd' = [pc |-> IF branch = "save" THEN "save" ELSE "idle",
                      n |-> upd.n + 1, new_data |-> new_data, pre |-> data,
                      any_diff |-> any_diff, saves0 |-> Len(saves),
                      warn0 |-> warnings]
           /\ warnings' = IF branch = "warn" THEN warnings + 1 ELSE warnings
           /\ plock' = IF branch = "save" THEN "update" ELSE plock
           /\ data' = MergedData(data, new_data)
    /\ UNCHANGED <<sideVars, extensions, persistor, ctor_id, saves, dispatchVars, ret>>

\* persistor.lock().await.save(&self.data), guard dropped, return
UpdateSave ==
    /\ upd.pc = "save"
    /\ plock = "update"
    /\ saves' = Append(saves, data)
    /\ plock' = "free"
    /\ upd' = [upd EXCEPT !.pc = "idle"]
    /\ UNCHANGED <<sideVars, extensions, persistor, data, ctor_id, warnings, dispatchVars, ret, budget>>

\* ---------------------------------------------------------- dispatcher
Event(ev, msg, call) == [ev |-> ev, msg |-> msg, call |-> call]

\* notify_extension, lines 103-107: an ExtensionInstance whose parent_id
\* equals extension_id
NotifyExtensionMatchAll(e, extension_id) == IsInstance(e)
NotifyExtensionMatch(e, extension_id) ==
    IsInstance(e) /\ e.parent_id = extension_id

\* notify_extensions, line 122: every ExtensionInstance
NotifyExtensionsMatchFirstGroup(e) == IsInstance(e) /\ e.parent_id = "group-1"
NotifyExtensionsMatch(e) == IsInstance(e)

IndexSeq == [i \in Indices |-> i]

\* one tokio::spawn per matching record, in catalog order
Spawned(targets, msg, call) ==
    [k \in 1..Len(targets) |->
        [ext |-> targets[k], msg |-> msg, call |-> call, pc |-> "spawned",
         arr |-> 0]]

\* some target's lock is held by another unit when the call is made
Busy(targets) == \E k \in 1..Len(targets) : lock[targets[k]] # 0

\* notify_extension(extension_id, message): a synchronous loop of spawns
NotifyExtension(extension_id, message) ==
    /\ upd.pc = "idle"
    /\ Len(calls) < MaxNotifies
    /\ budget > 0
    /\ budget' = budget - 1
    /\ LET call == Len(calls) + 1
           targets == SelectSeq(IndexSeq,
                        LAMBDA i : NotifyExtensionMatch(extensions[i], extension_id))
       IN  /\ Len(tasks) + Len(targets) <= MaxTasks
           /\ calls' = Append(calls, [op |-> "notify_extension",
                                      owner |-> extension_id, msg |-> message,
                                      busy |-> Busy(targets)])
           /\ tasks' = tasks \o Spawned(targets, message, call)
    /\ UNCHANGED <<sideVars, extensions, persistVars, lock, queue, received, reload, ret>>

\* notify_extensions(message)
NotifyExtensionsAwait(message) ==
    /\ upd.pc = "idle"
    /\ Len(calls) < MaxNotifies
    /\ budget > 0
    /\ budget' = budget - 1
    /\ LET call == Len(calls) + 1
           targets == SelectSeq(IndexSeq,
                        LAMBDA i : NotifyExtensionsMatch(extensions[i]))
       IN  /\ ~Busy(targets)
           /\ Len(tasks) + Len(targets) <= MaxTasks
           /\ calls' = Append(calls, [op |-> "notify_extensions",
                                      owner |-> "", msg |-> message,
                                      busy |-> FALSE])
           /\ tasks' = tasks \o Spawned(targets, message, call)
    /\ UNCHANGED <<sideVars, extensions, persistVars, lock, queue, received, reload, ret>>

NotifyExtensions(message) ==
    /\ upd.pc = "idle"
    /\ Len(calls) < MaxNotifies
    /\ budget > 0
    /\ budget' = budget - 1
    /\ LET call == Len(calls) + 1
           targets == SelectSeq(IndexSeq,
                        LAMBDA i : NotifyExtensionsMatch(extensions[i]))
       IN  /\ Len(tasks) + Len(targets) <= MaxTasks
           /\ calls' = Append(calls, [op |-> "notify_extensions",
                                      owner |-> "", msg |-> message,
                                      busy |-> Busy(targets)])
           /\ tasks' = tasks \o Spawned(targets, message, call)
    /\ UNCHANGED <<sideVars, extensions, persistVars, lock, queue, received, reload, ret>>

\* tokio::sync::Mutex: a release hands the lock to the oldest waiter
NextHolderNewest(i) == IF queue[i] = <<>> THEN 0 ELSE queue[i][Len(queue[i])]
NextHolderNone(i) == 0
NextHolder(i) == IF queue[i] = <<>> THEN 0 ELSE Head(queue[i])
RestQueue(i) == IF queue[i] = <<>> THEN <<>> ELSE Tail(queue[i])

\* tasks after the unit done (0 = none) finished and holder h got the lock
TasksAfter(done, h) ==
    [t \in 1..Len(tasks) |->
        IF t = done THEN [tasks[t] EXCEPT !.pc = "done"]
        ELSE IF t = h THEN [tasks[t] EXCEPT !.pc = "locked"]
        ELSE tasks[t]]

\* tokio::sync::Mutex::lock(): taken at once when the mutex is free
CanAcquireAlways(i) == TRUE
CanAcquire(i) == lock[i] = 0

\* the rank of a unit among the units that reached the lock of plugin i
ArrivalRank(i) ==
    1 + Cardinality({u \in 1..Len(tasks) : tasks[u].ext = i /\ tasks[u].arr > 0})

\* a spawned unit reaches ext_plugin.lock().await
TaskLock(t) ==
    /\ tasks[t].pc = "spawned"
    /\ LET i == tasks[t].ext
       IN  IF CanAcquire(i)
           THEN /\ lock' = [lock EXCEPT ![i] = t]
                /\ tasks' = [tasks EXCEPT ![t].pc = "locked",
                                          ![t].arr = ArrivalRank(i)]
                /\ UNCHANGED queue
           ELSE /\ queue' = [queue EXCEPT ![i] = Append(@, t)]
                /\ tasks' = [tasks EXCEPT ![t].pc = "waiting",
                                          ![t].arr = ArrivalRank(i)]
                /\ UNCHANGED lock
    /\ UNCHANGED <<sideVars, extensions, persistVars, received, calls, reload, ret, budget>>

\* ext_plugin.notify(message), then the guard is dropped and the unit ends
TaskNotify(t) ==
    /\ tasks[t].pc = "locked"
    /\ LET i == tasks[t].ext
           h == NextHolder(i)
       IN  /\ lock[i] = t
           /\ received' = [received EXCEPT
                  ![i] = Append(@, Event("notify", tasks[t].msg, tasks[t].call))]
           /\ lock' = [lock EXCEPT ![i] = h]
           /\ queue' = [queue EXCEPT ![i] = RestQueue(i)]
           /\ tasks' = TasksAfter(t, h)
           /\ reload' = IF h = ReloadId THEN [reload EXCEPT !.pc = "unload"]
                        ELSE reload
    /\ UNCHANGED <<sideVars, extensions, persistVars, calls, ret, budget>>

\* run_extensions, line 91-92: the next ExtensionInstance after index i
NextInstanceAnyKind(i) == IF i >= Len(extensions) THEN 0 ELSE i + 1
RECURSIVE NextInstance(_)
NextInstance(i) ==
    IF i >= Len(extensions) THEN 0
    ELSE IF IsInstance(extensions[i + 1]) THEN i + 1
    ELSE NextInstance(i + 1)

NoReload == [pc |-> "idle", i |-> 0, n |-> 0]

\* reload after the instance at index i is finished (i = 0: at the call)
ReloadAdvance(i) ==
    LET j == NextInstance(i)
    IN  IF j = 0 THEN [pc |-> "idle", i |-> 0, n |-> reload.n + 1]
        ELSE [pc |-> "lock", i |-> j, n |-> reload.n]

\* run_extensions() is called
RunExtensions ==
    /\ NoBorrow
    /\ reload.n < MaxReloads
    /\ budget > 0
    /\ budget' = budget - 1
    /\ reload' = ReloadAdvance(0)
    /\ UNCHANGED <<sideVars, extensions, persistVars, tasks, lock, queue, received, calls, ret>>

\* plugin.lock().await
ReloadLock ==
    /\ reload.pc = "lock"
    /\ LET i == reload.i
       IN  IF CanAcquire(i)
           THEN /\ lock' = [lock EXCEPT ![i] = ReloadId]
                /\ reload' = [reload EXCEPT !.pc = "unload"]
                /\ UNCHANGED queue
           ELSE /\ queue' = [queue EXCEPT ![i] = Append(@, ReloadId)]
                /\ reload' = [reload EXCEPT !.pc = "waiting"]
                /\ UNCHANGED lock
    /\ UNCHANGED <<sideVars, extensions, persistVars, tasks, received, calls, ret, budget>>

\* ext_plugin.unload()
ReloadUnloadDropGuard ==
    /\ reload.pc = "unload"
    /\ lock[reload.i] = ReloadId
    /\ received' = [received EXCEPT ![reload.i] = Append(@, Event("unload", "", 0))]
    /\ lock' = [lock EXCEPT ![reload.i] = NextHolder(reload.i)]
    /\ queue' = [queue EXCEPT ![reload.i] = RestQueue(reload.i)]
    /\ tasks' = TasksAfter(0, NextHolder(reload.i))
    /\ reload' = [reload EXCEPT !.pc = "init"]
    /\ UNCHANGED <<sideVars, extensions, persistVars, calls, ret, budget>>

ReloadUnload ==
    /\ reload.pc = "unload"
    /\ lock[reload.i] = ReloadId
    /\ received' = [received EXCEPT ![reload.i] = Append(@, Event("unload", "", 0))]
    /\ reload' = [reload EXCEPT !.pc = "init"]
    /\ UNCHANGED <<sideVars, extensions, persistVars, tasks, lock, queue, calls, ret, budget>>

\* ext_plugin.init(), the guard is dropped at the end of the loop body
ReloadInit ==
    /\ reload.pc = "init"
    /\ LET i == reload.i
           h == NextHolder(i)
       IN  /\ lock[i] = ReloadId
           /\ received' = [received EXCEPT ![i] = Append(@, Event("init", "", 0))]
           /\ lock' = [lock EXCEPT ![i] = h]
           /\ queue' = [queue EXCEPT ![i] = RestQueue(i)]
           /\ tasks' = TasksAfter(0, h)
           /\ reload' = ReloadAdvance(i)
    /\ UNCHANGED <<sideVars, extensions, persistVars, calls, ret, budget>>

\* ------------------------------------------------------- specifications
\* State::new(id, extensions_manager, persistor) / State::default() with a
\* catalog: the data is whatever load() (or StateData::default()) returned,
\* with the id overlaid.
\* Default for State, lines 41-56: the "local" filesystem only, no token, no
\* persistor, no language server
DefaultState ==
    [filesystems |-> {"local"}, tokens |-> <<>>, persistor |-> FALSE,
     language_servers |-> {}]

\* State::new, lines 66-73: the loaded data with the given id, the persistor
\* kept, everything else from Default
NewDataKeepId(id, state) == state
NewData(id, state) == [state EXCEPT !.id = id]

InitWith(catalogs, datas, persistors, calls_left) ==
    /\ extensions \in catalogs
    /\ persistor \in persistors
    /\ data \in datas
    /\ ctor_id = data.id
    /\ built = TRUE
    /\ loaded = data
    /\ loads = IF persistor THEN 1 ELSE 0
    /\ filesystems = DefaultState.filesystems
    /\ tokens = DefaultState.tokens
    /\ language_servers = DefaultState.language_servers
    /\ saves = <<>>
    /\ warnings = 0
    /\ upd = NoUpdate
    /\ plock = "free"
    /\ tasks = <<>>
    /\ lock = [i \in Indices |-> 0]
    /\ queue = [i \in Indices |-> <<>>]
    /\ received = [i \in Indices |-> <<>>]
    /\ calls = <<>>
    /\ reload = NoReload
    /\ ret = NoRet
    /\ budget = calls_left

EmptyData == [id |-> 0, views |-> <<>>, commands |-> {}]

Update == \E new_data \in StateData : UpdateBegin(new_data)
Notify ==
    \/ \E owner \in ParentIds, m \in Msgs : NotifyExtension(owner, m)
    \/ \E m \in Msgs : NotifyExtensions(m)
TaskStep == \E t \in 1..Len(tasks) : TaskLock(t) \/ TaskNotify(t)
ReloadStep == ReloadLock \/ ReloadUnload \/ ReloadInit
Lookup ==
    \/ \E x \in ExtIds \cup ParentIds : GetExtInfoById(x)
    \/ \E x \in ExtIds \cup ParentIds : GetExtRunInfoById(x)
    \/ GetExtListById

\* the whole State: every operation, few calls, a persistor that loads
\* empty views and commands
FreshData == {d \in StateData : d.views = <<>> /\ d.commands = {}}
Init == InitWith(SeqsUpTo(FullExtension, MaxFullExts), FreshData, BOOLEAN, MaxCalls)
Next ==
    \/ Update
    \/ UpdateSave
    \/ Notify
    \/ TaskStep
    \/ RunExtensions
    \/ ReloadStep
    \/ Lookup
Spec == Init /\ [][Next]_vars

\* the persistence coordinator alone
InitPersist == InitWith({<<>>}, StateData, BOOLEAN, MaxUpdates)
NextPersist ==
    \/ Update
    \/ UpdateSave
SpecPersist == InitPersist /\ [][NextPersist]_vars

\* the dispatcher alone
InitDispatch ==
    InitWith(SeqsUpTo(DispExtension, MaxDispExts), {EmptyData}, {TRUE}, MaxDispCalls)
NextDispatch ==
    \/ Notify
    \/ TaskStep
    \/ RunExtensions
    \/ ReloadStep
SpecDispatch == InitDispatch /\ [][NextDispatch]_vars

\* the catalog lookups alone
InitLookup == InitWith(SeqsUpTo(LookupExtension, MaxExts), {EmptyData}, {TRUE}, MaxLookups)
NextLookup == Lookup
SpecLookup == InitLookup /\ [][NextLookup]_vars

\* ------------------------------------------------------------ properties
UpdateCalled == upd.n > 0
UpdateDone == upd.n > 0 /\ upd.pc = "idle"
ViewsDiffer == upd.pre.views # upd.new_data.views
CommandsDiffer == upd.pre.commands # upd.new_data.commands

\* C1: an update with differing views calls save exactly once, and the data
\* handed to save is the post-merge data: views and commands of new_data,
\* id of the live data from before the call.
C1_SaveOncePostMerge ==
    (UpdateDone /\ persistor /\ ViewsDiffer) =>
        /\ Len(saves) = upd.saves0 + 1
        /\ saves[Len(saves)].views = upd.new_data.views
        /\ saves[Len(saves)].commands = upd.new_data.commands
        /\ saves[Len(saves)].id = upd.pre.id

\* C2: after an update whose new_data differs from the live data in views or
\* commands, the live views and commands are those of new_data.
C2_LiveDataReplaced ==
    (UpdateDone /\ (ViewsDiffer \/ CommandsDiffer)) =>
        /\ data.views = upd.new_data.views
        /\ data.commands = upd.new_data.commands

\* C3: an update whose new_data has the same views and commands as the live
\* data never calls save, whatever id new_data carries.
C3_NoSaveWhenSame ==
    (UpdateCalled /\ ~ViewsDiffer /\ ~CommandsDiffer) =>
        /\ upd.pc = "idle"
        /\ plock = "free"
        /\ Len(saves) = upd.saves0

C3_Witness ==
    /\ UpdateDone /\ persistor
    /\ ~ViewsDiffer /\ ~CommandsDiffer
    /\ upd.new_data.id # upd.pre.id
    /\ upd.pre.views # <<>>
    /\ Len(saves) = upd.saves0

\* C4: without a persistor, an update with changed data returns at once, has
\* emitted the warning once and has attempted no save.
C4_NoPersistorWarns ==
    (UpdateCalled /\ ~persistor /\ (ViewsDiffer \/ CommandsDiffer)) =>
        /\ upd.pc = "idle"
        /\ plock = "free"
        /\ warnings = upd.warn0 + 1
        /\ Len(saves) = upd.saves0
        /\ saves = <<>>

C4_Witness ==
    /\ UpdateDone /\ ~persistor
    /\ ViewsDiffer /\ CommandsDiffer
    /\ warnings = upd.warn0 + 1
    /\ saves = <<>>

\* C5: the id of the live data is the id given at construction, after any
\* sequence of update, notify, reload and lookup operations.
C5_IdImmutable == data.id = ctor_id

C5_Witness ==
    /\ UpdateDone
    /\ upd.new_data.id # ctor_id
    /\ ViewsDiffer
    /\ data.id = ctor_id
    /\ \E i \in Indices : received[i] # <<>>

\* all spawned units have run to their end
Quiescent == \A t \in 1..Len(tasks) : tasks[t].pc = "done"

\* number of notify calls plugin i has received for call c, with the
\* message of that call
Delivered(i, c) ==
    Cardinality({k \in 1..Len(received[i]) :
                    /\ received[i][k].ev = "notify"
                    /\ received[i][k].call = c
                    /\ received[i][k].msg = calls[c].msg})

\* number of notify calls plugin i has received for call c, any message
DeliveredAny(i, c) ==
    Cardinality({k \in 1..Len(received[i]) :
                    received[i][k].ev = "notify" /\ received[i][k].call = c})

\* C6: after notify_extension(owner, msg), once all spawned units are done,
\* every ExtensionInstance whose parent_id is owner has received exactly one
\* notify(msg) for that call, and every other record none.
C6_TargetedDelivery ==
    \A c \in 1..Len(calls) : \A i \in Indices :
        calls[c].op = "notify_extension" =>
            LET due == IF IsInstance(extensions[i])
                          /\ extensions[i].parent_id = calls[c].owner
                       THEN 1 ELSE 0
            IN  /\ DeliveredAny(i, c) <= due
                /\ Quiescent => (Delivered(i, c) = due /\ DeliveredAny(i, c) = due)

C6_Witness ==
    /\ Quiescent
    /\ \E c \in 1..Len(calls) : \E i, j \in Indices :
        /\ calls[c].op = "notify_extension"
        /\ calls[c].owner = "group-1"
        /\ IsInstance(extensions[i]) /\ extensions[i].parent_id = "group-1"
        /\ IsInstance(extensions[j]) /\ extensions[j].parent_id = "group-2"
        /\ Delivered(i, c) = 1
        /\ DeliveredAny(j, c) = 0

\* C7: after notify_extensions(msg), once all spawned units are done, every
\* ExtensionInstance, whatever its parent_id, has received exactly one
\* notify(msg) for that call, and the manifest records none; one unit is
\* spawned per ExtensionInstance.
C7_BroadcastDelivery ==
    \A c \in 1..Len(calls) : \A i \in Indices :
        calls[c].op = "notify_extensions" =>
            LET due == IF IsInstance(extensions[i]) THEN 1 ELSE 0
            IN  /\ Cardinality({t \in 1..Len(tasks) :
                        tasks[t].call = c /\ tasks[t].ext = i}) = due
                /\ DeliveredAny(i, c) <= due
                /\ Quiescent => (Delivered(i, c) = due /\ DeliveredAny(i, c) = due)

C7_Witness ==
    /\ Quiescent
    /\ \E c \in 1..Len(calls) : \E i, j \in Indices :
        /\ calls[c].op = "notify_extensions"
        /\ IsInstance(extensions[i]) /\ extensions[i].parent_id = "group-2"
        /\ ~IsInstance(extensions[j])
        /\ Delivered(i, c) = 1
        /\ DeliveredAny(j, c) = 0

Least(S) == CHOOSE i \in S : \A j \in S : i <= j
InstancesWithId(x) ==
    {i \in Indices : extensions[i].kind = "ExtensionInstance" /\ extensions[i].id = x}
ManifestIndices ==
    {i \in Indices : extensions[i].kind \in {"ManifestBuiltin", "ManifestFile"}}
ManifestsWithId(x) == {i \in ManifestIndices : extensions[i].id = x}

\* C8: get_ext_run_info_by_id(X) returns the info of the (first)
\* ExtensionInstance whose own id is X, and ExtensionNotFound when no
\* ExtensionInstance has id X, also when a manifest record has that id.
C8_RunInfoById ==
    ret.op = "get_ext_run_info_by_id" =>
        LET S == InstancesWithId(ret.arg)
        IN  IF S = {} THEN ret.res.tag = "ExtensionNotFound"
            ELSE /\ ret.res.tag = "Ok"
                 /\ ret.res.info.id = ret.arg
                 /\ ret.res.info.name = extensions[Least(S)].name

C8_Witness ==
    /\ ret.op = "get_ext_run_info_by_id"
    /\ ret.res.tag = "Ok"
    /\ Len(extensions) >= 2
    /\ ~IsInstance(extensions[1])
    /\ extensions[1].id = ret.arg
    /\ extensions[1].name # ret.res.info.name

\* C9: get_ext_info_by_id(Y) returns the info of the first ManifestBuiltin or
\* ManifestFile record whose id is Y, however many ExtensionInstance records
\* exist, and ExtensionNotFound when no manifest record has id Y, also when
\* an ExtensionInstance has that id.
C9_InfoById ==
    ret.op = "get_ext_info_by_id" =>
        LET S == ManifestsWithId(ret.arg)
        IN  IF S = {} THEN ret.res.tag = "ExtensionNotFound"
            ELSE /\ ret.res.tag = "Ok"
                 /\ ret.res.info.id = ret.arg
                 /\ ret.res.info.name = extensions[Least(S)].name

C9_Witness ==
    /\ ret.op = "get_ext_info_by_id"
    /\ ret.res.tag = "Ok"
    /\ Len(extensions) = 3
    /\ IsInstance(extensions[1])
    /\ extensions[1].id = ret.arg
    /\ extensions[1].name # ret.res.info.name
    /\ extensions[2].kind = "ManifestFile"
    /\ extensions[3].kind = "ManifestBuiltin"
    /\ extensions[2].id = ret.arg /\ extensions[3].id = ret.arg
    /\ extensions[2].name # extensions[3].name

\* C10: get_ext_list_by_id() returns the ids of the ManifestBuiltin and
\* ManifestFile records, one entry per record, in catalog order, and nothing
\* else.
C10_ListIds ==
    ret.op = "get_ext_list_by_id" =>
        /\ Len(ret.list) = Cardinality(ManifestIndices)
        /\ \A i \in ManifestIndices :
            ret.list[Cardinality({j \in ManifestIndices : j <= i})] = extensions[i].id

C10_Witness ==
    /\ ret.op = "get_ext_list_by_id"
    /\ Len(extensions) = 3
    /\ ret.list = <<"b", "b">>
    /\ IsInstance(extensions[2])
    /\ extensions[2].id = "a"

\* ------------------------------------------------------------ tokens
MaxTokens == 3        \* length of the token list

Tokens == {"", "t", "T"}
ToLower(a) == IF a = "T" THEN "t" ELSE a

\* String equality as used by Vec::contains
TokenEqIgnoreCase(a, b) == ToLower(a) = ToLower(b)
TokenEq(a, b) == a = b

\* self.tokens.contains(&token.to_owned()): a scan of the list
RECURSIVE Contains(_, _, _)
Contains(toks, i, token) ==
    IF i > Len(toks) THEN FALSE
    ELSE IF TokenEq(toks[i], token) THEN TRUE
    ELSE Contains(toks, i + 1, token)

has_token(toks, token) == Contains(toks, 1, token)

Flag(b) == [tag |-> IF b THEN "true" ELSE "false", info |-> NoInfo]

HasToken(token) ==
    /\ built
    /\ budget > 0
    /\ budget' = budget - 1
    /\ ret' = [op |-> "has_token", arg |-> token,
               res |-> Flag(has_token(tokens, token)), list |-> <<>>]
    /\ UNCHANGED <<sideVars, extensions, persistVars, dispatchVars>>

\* the owner of the State pushes a token on the public field
PushToken(token) ==
    /\ built
    /\ Len(tokens) < MaxTokens
    /\ tokens' = Append(tokens, token)
    /\ UNCHANGED <<built, loaded, loads, filesystems, language_servers,
                   extensions, persistVars, dispatchVars, ret, budget>>

TokenStep ==
    \/ \E token \in Tokens : HasToken(token)
    \/ \E token \in Tokens : PushToken(token)

\* the token list alone
InitTokens == InitWith({<<>>}, {EmptyData}, {TRUE}, MaxLookups)
NextTokens == TokenStep
SpecTokens == InitTokens /\ [][NextTokens]_vars

TokenSet == {tokens[i] : i \in 1..Len(tokens)}

\* C11: has_token(t) answers true exactly when t is an element of the token
\* list, compared as exact strings; in particular it answers false for every
\* string while the list is empty, as it is after construction.
C11_HasTokenMembership ==
    [][(budget' # budget /\ ret'.op = "has_token") =>
          /\ (ret'.res.tag = "true") <=> (ret'.arg \in TokenSet)
          /\ ret'.res.tag \in {"true", "false"}
          /\ (tokens = <<>> => ret'.res.tag = "false")]_vars

C11_Witness ==
    /\ ret.op = "has_token"
    /\ ret.arg = "t"
    /\ ret.res.tag = "false"
    /\ tokens = <<"T", "">>

\* ------------------------------------------------------- delivery order
MaxOrderExts == 1     \* catalog length in the ordering specification
MaxOrderCalls == 3    \* method calls in the ordering specification

\* the dispatcher on short catalogs, with enough calls for a reload and two
\* units to meet at one plugin's lock
InitOrder ==
    InitWith(SeqsUpTo(FullExtension, MaxOrderExts), {EmptyData}, {TRUE}, MaxOrderCalls)
NextOrder ==
    \/ Notify
    \/ TaskStep
    \/ RunExtensions
    \/ ReloadStep
SpecOrder == InitOrder /\ [][NextOrder]_vars

\* plugin i has received the notify of call c
Got(i, c) ==
    \E k \in 1..Len(received[i]) :
        received[i][k].ev = "notify" /\ received[i][k].call = c
\* its position among the calls plugin i has received
Pos(i, c) ==
    CHOOSE k \in 1..Len(received[i]) :
        received[i][k].ev = "notify" /\ received[i][k].call = c
\* call c spawned a unit for plugin i
Targets(c, i) ==
    \E t \in 1..Len(tasks) : tasks[t].call = c /\ tasks[t].ext = i

\* C12 as stated: of two notify calls made one after the other, every
\* plugin that matches both receives the first call's notify before the
\* second call's, under every scheduling of the units.
C12_CallOrderKept ==
    \A i \in Indices : \A c1, c2 \in 1..Len(calls) :
        (c1 < c2 /\ Targets(c1, i) /\ Got(i, c2)) =>
            (Got(i, c1) /\ Pos(i, c1) < Pos(i, c2))

\* C12 as amended: the notifies of one plugin are delivered in the order in
\* which their units reached the plugin's lock, which need not be the order
\* of the calls.
C12_ArrivalOrderKept ==
    \A t1, t2 \in 1..Len(tasks) :
        (/\ t1 # t2
         /\ tasks[t1].ext = tasks[t2].ext
         /\ tasks[t1].arr > 0
         /\ tasks[t2].arr > 0
         /\ tasks[t1].arr < tasks[t2].arr
         /\ Got(tasks[t2].ext, tasks[t2].call)) =>
            /\ Got(tasks[t1].ext, tasks[t1].call)
            /\ Pos(tasks[t1].ext, tasks[t1].call) < Pos(tasks[t2].ext, tasks[t2].call)

\* a reload pass took the lock first, then two units were delivered, the
\* later call first
C12_Witness ==
    /\ Quiescent
    /\ \E t1, t2 \in 1..Len(tasks) :
        /\ tasks[t1].ext = tasks[t2].ext
        /\ tasks[t1].call < tasks[t2].call
        /\ tasks[t2].arr < tasks[t1].arr
        /\ received[tasks[t1].ext][1].ev = "unload"
        /\ Pos(tasks[t2].ext, tasks[t2].call) < Pos(tasks[t1].ext, tasks[t1].call)

\* ------------------------------------------------------ mutual exclusion
\* the units that are between acquiring and releasing the lock of plugin i
InCritical(i) ==
    {t \in 1..Len(tasks) : tasks[t].ext = i /\ tasks[t].pc = "locked"}
      \cup (IF reload.pc \in {"unload", "init"} /\ reload.i = i
            THEN {ReloadId} ELSE {})

ExclusiveHolders ==
    /\ \A i \in Indices :
        /\ Cardinality(InCritical(i)) <= 1
        /\ InCritical(i) = IF lock[i] = 0 THEN {} ELSE {lock[i]}
    /\ (upd.pc = "save") <=> (plock = "update")

\* a call on a plugin, or a save, is made by the unit that holds the lock
CallsUnderLock ==
    /\ \A i \in Indices :
        received'[i] # received[i] =>
            LET e == received'[i][Len(received'[i])]
            IN  /\ Len(received'[i]) = Len(received[i]) + 1
                /\ IF e.ev = "notify"
                   THEN /\ lock[i] \in 1..Len(tasks)
                        /\ tasks[lock[i]].pc = "locked"
                        /\ tasks[lock[i]].call = e.call
                   ELSE /\ lock[i] = ReloadId
                        /\ reload.i = i
    /\ saves' # saves => (plock = "update" /\ upd.pc = "save")

\* C13: at most one unit (a notification unit, the reload pass, an update
\* that saves) holds the lock of a plugin or of the persistor at a time, and
\* every init, unload, notify and save call is made by the holder of the lock.
C13_MutualExclusion == [](ExclusiveHolders) /\ [][CallsUnderLock]_vars

\* a notification unit waits while the reload pass is between unload and init
C13_Witness ==
    \E i \in Indices : \E t \in 1..Len(tasks) :
        /\ lock[i] = ReloadId
        /\ reload.pc = "init"
        /\ tasks[t].ext = i
        /\ tasks[t].pc = "waiting"
        /\ queue[i] = <<t>>

\* ------------------------------------------------------------- reload
\* the unload and init calls plugin i has received, in order
Lifecycle(i) == SelectSeq(received[i], LAMBDA e : e.ev # "notify")

\* the reload passes that are through with index i
PassesOver(i) ==
    reload.n + (IF reload.pc # "idle" /\ i < reload.i THEN 1 ELSE 0)

\* C14: a run_extensions pass calls unload and then init, once each, on every
\* ExtensionInstance and on no manifest record, one instance at a time in
\* catalog order: the instances before the current one have had their init,
\* those after it have had nothing of this pass.
C14_ReloadSequential ==
    /\ reload.pc # "idle" =>
          (reload.i \in Indices /\ IsInstance(extensions[reload.i]))
    /\ \A i \in Indices :
          IF IsInstance(extensions[i])
          THEN /\ \A k \in 1..Len(Lifecycle(i)) :
                      Lifecycle(i)[k].ev = IF k % 2 = 1 THEN "unload" ELSE "init"
               /\ Len(Lifecycle(i)) =
                      2 * PassesOver(i)
                        + (IF reload.pc = "init" /\ reload.i = i THEN 1 ELSE 0)
          ELSE received[i] = <<>>

C14_Witness ==
    /\ reload.n = 1
    /\ reload.pc = "idle"
    /\ Len(extensions) = 2
    /\ IsInstance(extensions[1]) /\ IsInstance(extensions[2])
    /\ Lifecycle(1) = <<Event("unload", "", 0), Event("init", "", 0)>>
    /\ Lifecycle(2) = <<Event("unload", "", 0), Event("init", "", 0)>>
    /\ Len(received[1]) = 3

\* ------------------------------------------------------ fire and forget
InstanceCount == Cardinality({i \in Indices : IsInstance(extensions[i])})
OwnedCount(owner) ==
    Cardinality({i \in Indices :
        IsInstance(extensions[i]) /\ extensions[i].parent_id = owner})

\* a notify call can be made: what the caller needs, the locks aside
MayNotify(n) ==
    /\ upd.pc = "idle"
    /\ Len(calls) < MaxNotifies
    /\ budget > 0
    /\ Len(tasks) + n <= MaxTasks

\* a notify call returns in one step whatever the state of the locks
NotifyNeverWaits ==
    \A m \in Msgs :
        /\ MayNotify(InstanceCount) => ENABLED NotifyExtensions(m)
        /\ \A owner \in ParentIds :
              MayNotify(OwnedCount(owner)) => ENABLED NotifyExtension(owner, m)

\* when a notify call returns nothing has been delivered for it and no lock
\* has been touched: its units are spawned, neither started nor reported
NotifyOnlySpawns ==
    calls' # calls =>
        /\ UNCHANGED <<lock, queue, received, reload>>
        /\ Len(tasks') >= Len(tasks)
        /\ \A t \in 1..Len(tasks') :
              IF t <= Len(tasks) THEN tasks'[t] = tasks[t]
              ELSE tasks'[t].pc = "spawned" /\ tasks'[t].call = Len(calls')

\* C15: notify_extension and notify_extensions return without waiting for a
\* delivery, also while the lock of a matching plugin is held by another
\* unit, and nothing of a delivery is given back to the caller.
C15_FireAndForget == [](NotifyNeverWaits) /\ [][NotifyOnlySpawns]_vars

\* a call was made while the reload pass held the lock of its target; the
\* call has returned and its unit has not yet started
C15_Witness ==
    \E c \in 1..Len(calls) : \E t \in 1..Len(tasks) :
        /\ calls[c].busy
        /\ tasks[t].call = c
        /\ tasks[t].pc = "spawned"
        /\ lock[tasks[t].ext] = ReloadId
        /\ received[tasks[t].ext] = <<>>

\* ------------------------------------------------------------ progress
\* the steps of the unit with number t, once it is spawned
TaskRun(t) == t \in 1..Len(tasks) /\ (TaskLock(t) \/ TaskNotify(t))

MaxLiveExts == 1      \* catalog length in the progress specification
MaxLiveCalls == 2     \* method calls in the progress specification

\* the records of the progress specification: running instances of one group
LiveExtension == {e \in FullExtension : IsInstance(e)}

\* an update without and with a difference; a targeted and a broadcast notify
LiveData == {EmptyData, [EmptyData EXCEPT !.views = <<"v1">>]}

\* update, the notify calls and run_extensions with the units they start;
\* the runtime polls every spawned unit and every awaited future that can
\* make a step, and plugin calls return
InitLive ==
    InitWith(SeqsUpTo(LiveExtension, MaxLiveExts), {EmptyData}, BOOLEAN, MaxLiveCalls)
NextLive ==
    \/ \E new_data \in LiveData : UpdateBegin(new_data)
    \/ UpdateSave
    \/ NotifyExtension("group-1", "m1")
    \/ NotifyExtensions("m2")
    \/ TaskStep
    \/ RunExtensions
    \/ ReloadStep
Fairness ==
    /\ \A t \in 1..MaxTasks : WF_vars(TaskRun(t))
    /\ WF_vars(ReloadStep)
    /\ WF_vars(UpdateSave)
SpecLive == InitLive /\ [][NextLive]_vars /\ Fairness

\* C16: under a fair scheduler every spawned unit ends (it gets its plugin's
\* lock, delivers and releases), a reload pass that was started ends, and an
\* update that saves ends: no interleaving of them deadlocks.
C16_UnitsComplete ==
    /\ \A t \in 1..MaxTasks :
          (Len(tasks) >= t /\ tasks[t].pc # "done")
              ~> (Len(tasks) >= t /\ tasks[t].pc = "done")
    /\ (reload.pc # "idle") ~> (reload.pc = "idle")
    /\ (upd.pc = "save") ~> (upd.pc = "idle")

\* a unit that had to wait for the reload pass has delivered, the pass is over
C16_Witness ==
    /\ Quiescent
    /\ reload.pc = "idle" /\ reload.n = 1
    /\ \E t \in 1..Len(tasks) :
          received[tasks[t].ext] =
              <<Event("unload", "", 0), Event("init", "", 0),
                Event("notify", tasks[t].msg, tasks[t].call)>>

\* ------------------------------------------------------- repeated update
\* an update call is made with the payload of the call before it, and that
\* call had found a difference
RepeatedUpdate ==
    /\ persistor
    /\ upd.n > 0 /\ upd.pc = "idle"
    /\ upd'.n = upd.n + 1
    /\ upd'.new_data = upd.new_data
    /\ (upd.pre.views # upd.new_data.views
          \/ upd.pre.commands # upd.new_data.commands)

\* C17: of two successive update calls with the same new_data, different
\* from the initial live data, the first saves and the second does not.
C17_SecondUpdateSilent ==
    [][RepeatedUpdate =>
          /\ Len(saves) = upd.saves0 + 1
          /\ upd'.pc = "idle"
          /\ plock' = "free"]_vars

\* -------------------------------------------------------- construction
MaxNewCalls == 1      \* method calls after construction
MaxNewExts == 1       \* catalog length in the construction specification

FsNames == {"local", "remote", ""}
LsNames == {"rust"}
LsDescriptors == {"d1", "d2"}
\* the maps a caller registers: at most one descriptor per name
LsMaps ==
    {m \in SUBSET (LsNames \X LsDescriptors) :
        \A p, q \in m : p[1] = q[1] => p = q}

\* self.filesystems.get(filesystem).cloned()
get_fs_by_name(fs, filesystem) == IF filesystem \in fs THEN "Some" ELSE "None"

GetFsByName(filesystem) ==
    /\ built
    /\ budget > 0
    /\ budget' = budget - 1
    /\ ret' = [op |-> "get_fs_by_name", arg |-> filesystem,
               res |-> [tag |-> get_fs_by_name(filesystems, filesystem),
                        info |-> NoInfo],
               list |-> <<>>]
    /\ UNCHANGED <<sideVars, extensions, persistVars, dispatchVars>>

\* self.language_servers.extend(language_servers): the new entries replace
\* those of the same name
RegisterLanguageServers(servers) ==
    /\ built
    /\ budget > 0
    /\ budget' = budget - 1
    /\ language_servers' =
          {p \in language_servers : \A q \in servers : q[1] # p[1]} \cup servers
    /\ UNCHANGED <<built, loaded, loads, filesystems, tokens,
                   extensions, persistVars, dispatchVars, ret>>

\* State::new(id, extensions_manager, persistor): one load(), the id laid
\* over the loaded data, the rest from Default
StateNew(id) ==
    /\ ~built
    /\ built' = TRUE
    /\ loads' = loads + 1
    /\ data' = NewData(id, loaded)
    /\ ctor_id' = id
    /\ persistor' = TRUE
    /\ filesystems' = DefaultState.filesystems
    /\ tokens' = DefaultState.tokens
    /\ language_servers' = DefaultState.language_servers
    /\ UNCHANGED <<loaded, extensions, saves, warnings, upd, plock,
                   dispatchVars, ret, budget>>

\* before construction: the catalog and the persistor that will be passed in
InitNew ==
    /\ extensions \in SeqsUpTo(FullExtension, MaxNewExts)
    /\ loaded \in StateData
    /\ built = FALSE
    /\ loads = 0
    /\ persistor = FALSE
    /\ data = EmptyData
    /\ ctor_id = 0
    /\ filesystems = {}
    /\ tokens = <<>>
    /\ language_servers = {}
    /\ saves = <<>>
    /\ warnings = 0
    /\ upd = NoUpdate
    /\ plock = "free"
    /\ tasks = <<>>
    /\ lock = [i \in Indices |-> 0]
    /\ queue = [i \in Indices |-> <<>>]
    /\ received = [i \in Indices |-> <<>>]
    /\ calls = <<>>
    /\ reload = NoReload
    /\ ret = NoRet
    /\ budget = MaxNewCalls

Construct == \E id \in Ids : StateNew(id)
SideTables ==
    \/ \E name \in FsNames : GetFsByName(name)
    \/ \E token \in Tokens : HasToken(token)
    \/ \E servers \in LsMaps : RegisterLanguageServers(servers)

\* construction, then the methods of the State
NextNew ==
    \/ Construct
    \/ built /\ Update
    \/ built /\ UpdateSave
    \/ built /\ Notify
    \/ built /\ TaskStep
    \/ built /\ RunExtensions
    \/ built /\ ReloadStep
    \/ built /\ Lookup
    \/ SideTables
SpecNew == InitNew /\ [][NextNew]_vars

\* what State::new leaves behind
Constructed ==
    (~built /\ built') =>
        /\ loads' = 1
        /\ saves' = <<>>
        /\ persistor'
        /\ data' = [loaded EXCEPT !.id = ctor_id']
        /\ filesystems' = {"local"}
        /\ get_fs_by_name(filesystems', "local") = "Some"
        /\ \A name \in FsNames \ {"local"} : get_fs_by_name(filesystems', name) = "None"
        /\ tokens' = <<>>
        /\ language_servers' = {}

\* C18: new(id, catalog, persistor) calls load once and save never, gives
\* the loaded data with only the id replaced by the given one, a filesystem
\* registry holding exactly "local", no token and no language server; no
\* later operation calls load again.
C18_Construction ==
    /\ [](loads = IF built THEN 1 ELSE 0)
    /\ [][Constructed]_vars

\* constructed over data of another id, then an update that saved
C18_Witness ==
    /\ built
    /\ loaded.id # ctor_id
    /\ loaded.views # <<>>
    /\ data = [loaded EXCEPT !.id = ctor_id]
    /\ loads = 1
    /\ Len(saves) = 1
    /\ upd.pc = "idle"

\* -------------------------------------------------------- atomic reload
\* C19: no notify reaches a plugin between the unload and the init of a
\* reload pass: in what a plugin has received every unload is followed at
\* once by an init (or is the last call, while the pass is about to call
\* init), and every init follows an unload at once.
C19_ReloadAtomic ==
    \A i \in Indices : \A k \in 1..Len(received[i]) :
        /\ received[i][k].ev = "unload" =>
              IF k < Len(received[i])
              THEN received[i][k + 1].ev = "init"
              ELSE reload.pc = "init" /\ reload.i = i /\ lock[i] = ReloadId
        /\ received[i][k].ev = "init" =>
              (k > 1 /\ received[i][k - 1].ev = "unload")

\* a notify call made while the pass held the plugin's lock was delivered
\* after the init
C19_Witness ==
    \E c \in 1..Len(calls) : \E i \in Indices :
        /\ calls[c].busy
        /\ received[i] = <<Event("unload", "", 0), Event("init", "", 0),
                           Event("notify", calls[c].msg, c)>>

\* -------------------------------------------------------------- warning
\* C20: without a persistor every update call emits the warning once, also
\* when new_data has the views and commands of the live data; with a
\* persistor no update call emits it.
C20_WarnIffNoPersistor ==
    /\ warnings = IF persistor THEN 0 ELSE upd.n
    /\ UpdateCalled =>
          warnings = upd.warn0 + (IF persistor THEN 0 ELSE 1)

C20_Witness ==
    /\ ~persistor
    /\ UpdateDone
    /\ upd.n = 2
    /\ ~ViewsDiffer /\ ~CommandsDiffer
    /\ warnings = 2
    /\ upd.warn0 = 1

====
